---- MODULE Spec2Model ----
(***************************************************************************)
(* Direct Lending Graph Visualization API (src/main.py) over a Neo4j       *)
(* database filled by src/seed_data.py.                                    *)
(*                                                                         *)
(* The model covers the three projection handlers, get_graph,              *)
(* get_entity_graph and get_node, their helpers, the Cypher queries they   *)
(* issue (evaluated over a small property graph), and the seeded fixture.  *)
(*                                                                         *)
(* Representation.                                                         *)
(*   - a graph node is [eid, labels, props]; labels is a set (a frozenset  *)
(*     in the driver), props a sequence of <<key, value>> pairs in the     *)
(*     mapping's iteration order, the "name" property included;            *)
(*   - a relationship is [eid, type, from, to, props];                     *)
(*   - property values are kept as the text str() renders them ("120",     *)
(*     "21.0"), which is the only way the handlers use them;               *)
(*   - None is the record NoneVal;                                         *)
(*   - a Python dict that the code iterates (nodes_map) is a sequence of   *)
(*     [key, value] entries in insertion order;                            *)
(*   - a vis.js colour is [plain |-> c] for the string c, and              *)
(*     [background |-> colour, opacity |-> "0.45"] for the wrapped dict;   *)
(*   - the "font" key of a node dict that has none is NoFont.              *)
(***************************************************************************)
EXTENDS Integers, Sequences, FiniteSets, TLC

VARIABLES
    db,          \* the property graph behind the driver
    hashOrder,   \* the process's iteration order of label sets
    pc,          \* position of the request being served
    view,        \* which handler serves it: "graph", "entity", "node"
    label,       \* path parameter {label}
    name,        \* path parameter {name}
    records,     \* the rows execute_query returned
    idx,         \* number of rows the handler's loop has consumed
    nodes_map,   \* dict nid -> vis node, in insertion order
    edges,       \* list of vis edges
    edge_set,    \* set of (from, type, to) keys
    inner_ids,   \* set of node ids seen under an inner column
    connections, \* get_node's list of connection entries
    seen,        \* get_node's set of (type, label, name) keys
    properties,  \* get_node's properties of the first row's node
    status,      \* HTTP status of the response, 0 while none is sent
    queries      \* number of database queries issued for the request

vars == <<db, hashOrder, pc, view, label, name, records, idx, nodes_map, edges,
          edge_set, inner_ids, connections, seen, properties, status, queries>>

(***************************************************************************)
(* Bounds of the model.                                                    *)
(***************************************************************************)
\* most relationships a database of the small family stores
MaxRels == 5
\* longest query result whose rows are returned in every possible order;
\* a longer result is returned in every rotation of the match order and of
\* its reverse
MaxPermLen == 4

(***************************************************************************)
(* Generic helpers.                                                        *)
(***************************************************************************)
NoneVal == [null |-> TRUE]

NoFont == [absent |-> TRUE]

RECURSIVE Flatten(_)
\* concatenation of a sequence of sequences
Flatten(ss) ==
    IF ss = <<>> THEN <<>> ELSE Head(ss) \o Flatten(Tail(ss))

\* [y for x in s for y in F(x)]
FlatMap(s, F(_)) == Flatten([i \in 1..Len(s) |-> F(s[i])])

RECURSIVE Join(_, _)
\* sep.join(lines)
Join(sep, lines) ==
    IF lines = <<>> THEN ""
    ELSE IF Len(lines) = 1 THEN lines[1]
    ELSE lines[1] \o sep \o Join(sep, Tail(lines))

Range(s) == {s[i] : i \in 1..Len(s)}

\* dict lookup props[key]; the key is present wherever the code reads it
Prop(props, key) ==
    LET i == CHOOSE i \in 1..Len(props) : props[i][1] = key IN props[i][2]

HasProp(props, key) == \E i \in 1..Len(props) : props[i][1] = key

\* every ordering of the sequence s
Perms(s) ==
    LET n == Len(s)
        bij == {p \in [1..n -> 1..n] : \A i, j \in 1..n : p[i] = p[j] => i = j}
    IN  {[i \in 1..n |-> s[p[i]]] : p \in bij}

Reverse(s) == [i \in 1..Len(s) |-> s[Len(s) + 1 - i]]

Rotations(s) ==
    LET n == Len(s)
    IN  {[i \in 1..n |-> s[((i - 1 + k) % n) + 1]] : k \in 0..(n - 1)}

\* The orders in which the driver may hand back the rows of a query that has
\* no ORDER BY clause.
Orders(rows) ==
    IF Len(rows) <= 1 THEN {rows}
    ELSE IF Len(rows) <= MaxPermLen THEN Perms(rows)
    ELSE Rotations(rows) \cup Rotations(Reverse(rows))

(***************************************************************************)
(* Styling and identity (main.py 39-50).                                   *)
(***************************************************************************)
STYLE ==
    [Borrower |-> [color |-> "#4A90D9", shape |-> "dot", size |-> 25],
     Lender   |-> [color |-> "#5CB85C", shape |-> "diamond", size |-> 25],
     Deal     |-> [color |-> "#F0AD4E", shape |-> "square", size |-> 20],
     Sector   |-> [color |-> "#9B59B6", shape |-> "triangle", size |-> 20]]

DEFAULT_STYLE == [color |-> "#999", shape |-> "dot", size |-> 15]

\* STYLE.get(label, DEFAULT_STYLE)
StyleFor(l) == IF l \in DOMAIN STYLE THEN STYLE[l] ELSE DEFAULT_STYLE

node_id(l, n) == l \o ":" \o n

\* list(node.labels)[0]: the first label in the iteration order of the set
first_label(node) ==
    LET rank(l) == CHOOSE i \in 1..Len(hashOrder) : hashOrder[i] = l
    IN  CHOOSE l \in node.labels : \A m \in node.labels : rank(l) <= rank(m)

node_name(node) == Prop(node.props, "name")

(***************************************************************************)
(* Projection of one node and one relationship (main.py 58-92).            *)
(***************************************************************************)
NodeTitleLines(node) ==
    <<"<b>" \o first_label(node) \o ": " \o node_name(node) \o "</b>">>
    \o FlatMap(node.props,
               LAMBDA kv : IF kv[1] # "name"
                           THEN <<kv[1] \o ": " \o kv[2]>> ELSE <<>>)

build_vis_node(node) ==
    LET l == first_label(node)
        nid == node_id(l, node_name(node))
        style == StyleFor(l)
    IN  [nid |-> nid,
         vis |-> [id    |-> nid,
                  label |-> node_name(node),
                  group |-> l,
                  title |-> Join("<br>", NodeTitleLines(node)),
                  color |-> [plain |-> style.color],
                  shape |-> style.shape,
                  size  |-> style.size,
                  font  |-> NoFont]]

\* rel_type.replace("_", " ") on the relationship types of the schema
Humanize(t) ==
    CASE t = "LENT_TO" -> "LENT TO"
      [] t = "IN_SECTOR" -> "IN SECTOR"
      [] OTHER -> t

build_vis_edge(rel, from_id, to_id) ==
    LET base == Humanize(rel.type)
        edge_label == IF HasProp(rel.props, "commitment_mm")
                      THEN base \o "\n$" \o Prop(rel.props, "commitment_mm") \o "MM"
                      ELSE base
        title_lines == <<"<b>" \o rel.type \o "</b>">>
                       \o FlatMap(rel.props, LAMBDA kv : <<kv[1] \o ": " \o kv[2]>>)
    IN  [from   |-> from_id,
         to     |-> to_id,
         label  |-> edge_label,
         title  |-> Join("<br>", title_lines),
         arrows |-> "to",
         font   |-> [size |-> 10, align |-> "middle"]]

(***************************************************************************)
(* The seeded fixture (seed_data.py 9-119).                                *)
(***************************************************************************)
sectors == <<"Healthcare", "Technology", "Industrials", "Business Services", "Consumer">>

borrowers ==
    <<[name |-> "MedTech Solutions", sector |-> "Healthcare", revenue_mm |-> "120", ebitda_mm |-> "28", hq |-> "Boston, MA"],
      [name |-> "CloudSecure Inc", sector |-> "Technology", revenue_mm |-> "85", ebitda_mm |-> "18", hq |-> "Austin, TX"],
      [name |-> "PrecisionMfg Corp", sector |-> "Industrials", revenue_mm |-> "200", ebitda_mm |-> "42", hq |-> "Detroit, MI"],
      [name |-> "DataFlow Analytics", sector |-> "Technology", revenue_mm |-> "65", ebitda_mm |-> "14", hq |-> "San Francisco, CA"],
      [name |-> "ProStaff Holdings", sector |-> "Business Services", revenue_mm |-> "150", ebitda_mm |-> "32", hq |-> "Chicago, IL"],
      [name |-> "VitalCare Clinics", sector |-> "Healthcare", revenue_mm |-> "95", ebitda_mm |-> "22", hq |-> "Nashville, TN"],
      [name |-> "BrightHome Brands", sector |-> "Consumer", revenue_mm |-> "110", ebitda_mm |-> "20", hq |-> "Atlanta, GA"],
      [name |-> "Apex Logistics", sector |-> "Industrials", revenue_mm |-> "175", ebitda_mm |-> "38", hq |-> "Dallas, TX"]>>

lenders ==
    <<[name |-> "Ares Capital", type |-> "BDC", aum_bn |-> "21.0"],
      [name |-> "HPS Investment", type |-> "Credit Fund", aum_bn |-> "12.0"],
      [name |-> "Golub Capital", type |-> "BDC", aum_bn |-> "9.5"],
      [name |-> "Blue Owl Capital", type |-> "Credit Fund", aum_bn |-> "15.0"],
      [name |-> "Monroe Capital", type |-> "Credit Fund", aum_bn |-> "4.2"],
      [name |-> "Owl Rock (Blue Owl)", type |-> "BDC", aum_bn |-> "11.0"]>>

deals ==
    <<[name |-> "MedTech Term Loan A", borrower |-> "MedTech Solutions", type |-> "Term Loan", amount_mm |-> "75", spread_bps |-> "550", maturity |-> "2029-06"],
      [name |-> "MedTech Revolver", borrower |-> "MedTech Solutions", type |-> "Revolver", amount_mm |-> "15", spread_bps |-> "500", maturity |-> "2028-06"],
      [name |-> "CloudSecure Unitranche", borrower |-> "CloudSecure Inc", type |-> "Unitranche", amount_mm |-> "50", spread_bps |-> "625", maturity |-> "2030-03"],
      [name |-> "PrecisionMfg TL-B", borrower |-> "PrecisionMfg Corp", type |-> "Term Loan B", amount_mm |-> "130", spread_bps |-> "500", maturity |-> "2029-12"],
      [name |-> "DataFlow Growth Facility", borrower |-> "DataFlow Analytics", type |-> "Delayed Draw TL", amount_mm |-> "40", spread_bps |-> "600", maturity |-> "2030-06"],
      [name |-> "ProStaff Acquisition Fin", borrower |-> "ProStaff Holdings", type |-> "Term Loan", amount_mm |-> "100", spread_bps |-> "575", maturity |-> "2029-09"],
      [name |-> "VitalCare Unitranche", borrower |-> "VitalCare Clinics", type |-> "Unitranche", amount_mm |-> "60", spread_bps |-> "650", maturity |-> "2030-01"],
      [name |-> "BrightHome TL", borrower |-> "BrightHome Brands", type |-> "Term Loan", amount_mm |-> "55", spread_bps |-> "525", maturity |-> "2029-03"],
      [name |-> "Apex Logistics Refi", borrower |-> "Apex Logistics", type |-> "Term Loan", amount_mm |-> "110", spread_bps |-> "475", maturity |-> "2028-12"],
      [name |-> "Apex Revolver", borrower |-> "Apex Logistics", type |-> "Revolver", amount_mm |-> "25", spread_bps |-> "425", maturity |-> "2027-12"]>>

participations ==
    <<[lender |-> "Ares Capital", deal |-> "MedTech Term Loan A", commitment_mm |-> "40", role |-> "Lead Arranger"],
      [lender |-> "HPS Investment", deal |-> "MedTech Term Loan A", commitment_mm |-> "35", role |-> "Participant"],
      [lender |-> "Ares Capital", deal |-> "MedTech Revolver", commitment_mm |-> "15", role |-> "Sole Lender"],
      [lender |-> "Blue Owl Capital", deal |-> "CloudSecure Unitranche", commitment_mm |-> "30", role |-> "Lead Arranger"],
      [lender |-> "Monroe Capital", deal |-> "CloudSecure Unitranche", commitment_mm |-> "20", role |-> "Participant"],
      [lender |-> "Ares Capital", deal |-> "PrecisionMfg TL-B", commitment_mm |-> "55", role |-> "Lead Arranger"],
      [lender |-> "Golub Capital", deal |-> "PrecisionMfg TL-B", commitment_mm |-> "40", role |-> "Participant"],
      [lender |-> "HPS Investment", deal |-> "PrecisionMfg TL-B", commitment_mm |-> "35", role |-> "Participant"],
      [lender |-> "HPS Investment", deal |-> "DataFlow Growth Facility", commitment_mm |-> "40", role |-> "Sole Lender"],
      [lender |-> "Blue Owl Capital", deal |-> "ProStaff Acquisition Fin", commitment_mm |-> "60", role |-> "Lead Arranger"],
      [lender |-> "Golub Capital", deal |-> "ProStaff Acquisition Fin", commitment_mm |-> "40", role |-> "Participant"],
      [lender |-> "Owl Rock (Blue Owl)", deal |-> "VitalCare Unitranche", commitment_mm |-> "60", role |-> "Sole Lender"],
      [lender |-> "Monroe Capital", deal |-> "BrightHome TL", commitment_mm |-> "30", role |-> "Lead Arranger"],
      [lender |-> "Owl Rock (Blue Owl)", deal |-> "BrightHome TL", commitment_mm |-> "25", role |-> "Participant"],
      [lender |-> "Ares Capital", deal |-> "Apex Logistics Refi", commitment_mm |-> "50", role |-> "Lead Arranger"],
      [lender |-> "Blue Owl Capital", deal |-> "Apex Logistics Refi", commitment_mm |-> "35", role |-> "Participant"],
      [lender |-> "Golub Capital", deal |-> "Apex Logistics Refi", commitment_mm |-> "25", role |-> "Participant"],
      [lender |-> "Ares Capital", deal |-> "Apex Revolver", commitment_mm |-> "25", role |-> "Sole Lender"]>>

\* MATCH (x:l {name: n}) of the seeding statements: the eid of that node
SeedMatch(nodes, l, n) ==
    CHOOSE i \in 1..Len(nodes) :
        l \in nodes[i].labels /\ Prop(nodes[i].props, "name") = n

\* The graph seed(tx) leaves in the database: nodes and relationships are
\* numbered in creation order.
seed ==
    LET ns == Len(sectors)
        nb == Len(borrowers)
        nl == Len(lenders)
        nd == Len(deals)
        sectorNodes ==
            [i \in 1..ns |->
                [eid |-> i, labels |-> {"Sector"}, props |-> << <<"name", sectors[i]>> >>]]
        borrowerNodes ==
            [i \in 1..nb |->
                [eid |-> ns + i, labels |-> {"Borrower"},
                 props |-> << <<"name", borrowers[i].name>>,
                              <<"revenue_mm", borrowers[i].revenue_mm>>,
                              <<"ebitda_mm", borrowers[i].ebitda_mm>>,
                              <<"hq", borrowers[i].hq>> >>]]
        lenderNodes ==
            [i \in 1..nl |->
                [eid |-> ns + nb + i, labels |-> {"Lender"},
                 props |-> << <<"name", lenders[i].name>>,
                              <<"type", lenders[i].type>>,
                              <<"aum_bn", lenders[i].aum_bn>> >>]]
        dealNodes ==
            [i \in 1..nd |->
                [eid |-> ns + nb + nl + i, labels |-> {"Deal"},
                 props |-> << <<"name", deals[i].name>>,
                              <<"type", deals[i].type>>,
                              <<"amount_mm", deals[i].amount_mm>>,
                              <<"spread_bps", deals[i].spread_bps>>,
                              <<"maturity", deals[i].maturity>> >>]]
        nodes == sectorNodes \o borrowerNodes \o lenderNodes \o dealNodes
        inSector ==
            [i \in 1..nb |->
                [eid |-> i, type |-> "IN_SECTOR",
                 from |-> ns + i,
                 to |-> SeedMatch(nodes, "Sector", borrowers[i].sector),
                 props |-> <<>>]]
        borrowed ==
            [i \in 1..nd |->
                [eid |-> nb + i, type |-> "BORROWED",
                 from |-> SeedMatch(nodes, "Borrower", deals[i].borrower),
                 to |-> ns + nb + nl + i,
                 props |-> <<>>]]
        lentTo ==
            [i \in 1..Len(participations) |->
                [eid |-> nb + nd + i, type |-> "LENT_TO",
                 from |-> SeedMatch(nodes, "Lender", participations[i].lender),
                 to |-> SeedMatch(nodes, "Deal", participations[i].deal),
                 props |-> << <<"commitment_mm", participations[i].commitment_mm>>,
                              <<"role", participations[i].role>> >>]]
    IN  [nodes |-> nodes, rels |-> inSector \o borrowed \o lentTo]

(***************************************************************************)
(* The family of small databases: every part of a candidate graph, a       *)
(* fragment of the fixture plus a second participation of one lender in    *)
(* one deal and a borrower that carries a second label.                    *)
(***************************************************************************)
CandNodes ==
    <<[eid |-> 1, labels |-> {"Sector"}, props |-> << <<"name", "Healthcare">> >>],
      [eid |-> 2, labels |-> {"Borrower"},
       props |-> << <<"name", "MedTech Solutions">>, <<"hq", "Boston, MA">> >>],
      [eid |-> 3, labels |-> {"Borrower"},
       props |-> << <<"name", "Apex Logistics">>, <<"hq", "Dallas, TX">> >>],
      [eid |-> 4, labels |-> {"Borrower", "Sponsor"},
       props |-> << <<"name", "CloudSecure Inc">>, <<"hq", "Austin, TX">> >>],
      [eid |-> 5, labels |-> {"Lender"},
       props |-> << <<"name", "Ares Capital">>, <<"aum_bn", "21.0">> >>],
      [eid |-> 6, labels |-> {"Lender"},
       props |-> << <<"name", "HPS Investment">>, <<"aum_bn", "12.0">> >>],
      [eid |-> 7, labels |-> {"Deal"},
       props |-> << <<"name", "MedTech Term Loan A">>, <<"amount_mm", "75">> >>],
      [eid |-> 8, labels |-> {"Deal"},
       props |-> << <<"name", "MedTech Revolver">>, <<"amount_mm", "15">> >>],
      [eid |-> 9, labels |-> {"Deal"},
       props |-> << <<"name", "Apex Revolver">>, <<"amount_mm", "25">> >>]>>

CandRels ==
    <<[eid |-> 1, type |-> "IN_SECTOR", from |-> 2, to |-> 1, props |-> <<>>],
      [eid |-> 2, type |-> "BORROWED", from |-> 2, to |-> 7, props |-> <<>>],
      [eid |-> 3, type |-> "BORROWED", from |-> 2, to |-> 8, props |-> <<>>],
      [eid |-> 4, type |-> "BORROWED", from |-> 3, to |-> 9, props |-> <<>>],
      [eid |-> 5, type |-> "BORROWED", from |-> 4, to |-> 9, props |-> <<>>],
      [eid |-> 6, type |-> "LENT_TO", from |-> 5, to |-> 7,
       props |-> << <<"commitment_mm", "40">>, <<"role", "Lead Arranger">> >>],
      [eid |-> 7, type |-> "LENT_TO", from |-> 6, to |-> 7,
       props |-> << <<"commitment_mm", "35">>, <<"role", "Participant">> >>],
      [eid |-> 8, type |-> "LENT_TO", from |-> 5, to |-> 8,
       props |-> << <<"commitment_mm", "15">>, <<"role", "Sole Lender">> >>],
      [eid |-> 9, type |-> "LENT_TO", from |-> 5, to |-> 9,
       props |-> << <<"commitment_mm", "25">>, <<"role", "Sole Lender">> >>],
      [eid |-> 10, type |-> "LENT_TO", from |-> 5, to |-> 7,
       props |-> << <<"commitment_mm", "5">>, <<"role", "Participant">> >>]>>

\* the database holding the candidate relationships R and their end nodes
SubDb(R) ==
    LET ends == {CandRels[i].from : i \in R} \cup {CandRels[i].to : i \in R}
    IN  [nodes |-> SelectSeq(CandNodes, LAMBDA n : n.eid \in ends),
         rels  |-> SelectSeq(CandRels, LAMBDA r : r.eid \in R)]

SmallDbs ==
    {SubDb(R) : R \in {X \in SUBSET (1..Len(CandRels)) : Cardinality(X) <= MaxRels}}

\* the iteration orders of a label set that the model tells apart: the
\* label outside the schema comes last or first
HashOrders ==
    {<<"Borrower", "Lender", "Deal", "Sector", "Sponsor">>,
     <<"Sponsor", "Borrower", "Lender", "Deal", "Sector">>}

(***************************************************************************)
(* The Cypher queries of the handlers, evaluated over a graph g.  A result *)
(* is the sequence of rows in match order: nodes, then relationships, in   *)
(* creation order.                                                         *)
(***************************************************************************)
NodeAt(g, eid) == CHOOSE n \in Range(g.nodes) : n.eid = eid

\* (src)-[rel:type]->(node:dstLabel) for a bound src; no match for a null src
OutMatches(g, src, type, dstLabel) ==
    IF src = NoneVal THEN <<>>
    ELSE FlatMap(g.rels,
                 LAMBDA r : IF /\ r.type = type
                               /\ r.from = src.eid
                               /\ dstLabel \in NodeAt(g, r.to).labels
                            THEN <<[rel |-> r, node |-> NodeAt(g, r.to)]>>
                            ELSE <<>>)

\* (node:srcLabel)-[rel:type]->(dst) for a bound dst; no match for a null dst
InMatches(g, dst, type, srcLabel) ==
    IF dst = NoneVal THEN <<>>
    ELSE FlatMap(g.rels,
                 LAMBDA r : IF /\ r.type = type
                               /\ r.to = dst.eid
                               /\ srcLabel \in NodeAt(g, r.from).labels
                            THEN <<[rel |-> r, node |-> NodeAt(g, r.from)]>>
                            ELSE <<>>)

\* OPTIONAL MATCH: every row is extended by each of its matches Ext(row), or
\* once by nulls when it has none
OptionalMatch(rows, Ext(_), nulls) ==
    FlatMap(rows,
            LAMBDA row :
                LET e == Ext(row)
                IN  IF e = <<>> THEN <<row @@ nulls>>
                    ELSE [i \in 1..Len(e) |-> row @@ e[i]])

\* main.py 166-172
BorrowerQuery(g, nm) ==
    LET m1 == FlatMap(g.nodes,
                  LAMBDA b :
                      IF "Borrower" \in b.labels /\ node_name(b) = nm
                      THEN LET o == OutMatches(g, b, "BORROWED", "Deal")
                           IN  [i \in 1..Len(o) |->
                                   [b |-> b, r1 |-> o[i].rel, d |-> o[i].node]]
                      ELSE <<>>)
        m2 == OptionalMatch(m1,
                  LAMBDA row :
                      LET i == InMatches(g, row.d, "LENT_TO", "Lender")
                      IN  [k \in 1..Len(i) |-> [l |-> i[k].node, r2 |-> i[k].rel]],
                  [l |-> NoneVal, r2 |-> NoneVal])
        m3 == OptionalMatch(m2,
                  LAMBDA row :
                      LET o == SelectSeq(OutMatches(g, row.l, "LENT_TO", "Deal"),
                                         LAMBDA x : x.node # row.d)
                      IN  [k \in 1..Len(o) |-> [d2 |-> o[k].node, r4 |-> o[k].rel]],
                  [d2 |-> NoneVal, r4 |-> NoneVal])
    IN  OptionalMatch(m3,
            LAMBDA row :
                LET i == InMatches(g, row.d2, "BORROWED", "Borrower")
                IN  [k \in 1..Len(i) |-> [b2 |-> i[k].node, r5 |-> i[k].rel]],
            [b2 |-> NoneVal, r5 |-> NoneVal])

\* main.py 176-182
LenderQuery(g, nm) ==
    LET m1 == FlatMap(g.nodes,
                  LAMBDA l :
                      IF "Lender" \in l.labels /\ node_name(l) = nm
                      THEN LET o == OutMatches(g, l, "LENT_TO", "Deal")
                           IN  [i \in 1..Len(o) |->
                                   [l |-> l, r2 |-> o[i].rel, d |-> o[i].node]]
                      ELSE <<>>)
        m2 == OptionalMatch(m1,
                  LAMBDA row :
                      LET i == InMatches(g, row.d, "BORROWED", "Borrower")
                      IN  [k \in 1..Len(i) |-> [b |-> i[k].node, r1 |-> i[k].rel]],
                  [b |-> NoneVal, r1 |-> NoneVal])
        m3 == OptionalMatch(m2,
                  LAMBDA row :
                      LET o == SelectSeq(OutMatches(g, row.b, "BORROWED", "Deal"),
                                         LAMBDA x : x.node # row.d)
                      IN  [k \in 1..Len(o) |-> [d2 |-> o[k].node, r4 |-> o[k].rel]],
                  [d2 |-> NoneVal, r4 |-> NoneVal])
    IN  OptionalMatch(m3,
            LAMBDA row :
                LET i == InMatches(g, row.d2, "LENT_TO", "Lender")
                IN  [k \in 1..Len(i) |-> [l2 |-> i[k].node, r5 |-> i[k].rel]],
            [l2 |-> NoneVal, r5 |-> NoneVal])

\* main.py 253-255: MATCH (n) OPTIONAL MATCH (n)-[r]->(m) RETURN n, r, m
GraphQuery(g) ==
    OptionalMatch([i \in 1..Len(g.nodes) |-> [n |-> g.nodes[i]]],
        LAMBDA row :
            FlatMap(g.rels,
                    LAMBDA r : IF r.from = row.n.eid
                               THEN <<[r |-> r, m |-> NodeAt(g, r.to)]>>
                               ELSE <<>>),
        [r |-> NoneVal, m |-> NoneVal])

\* main.py 278-281: MATCH (n) WHERE $label IN labels(n) AND n.name = $name
\*                  OPTIONAL MATCH (n)-[r]-(m) RETURN n, r, m
NodeQuery(g, lbl, nm) ==
    OptionalMatch(
        FlatMap(g.nodes,
                LAMBDA n : IF lbl \in n.labels /\ node_name(n) = nm
                           THEN <<[n |-> n]>> ELSE <<>>),
        LAMBDA row :
            FlatMap(g.rels,
                    LAMBDA r :
                        IF r.from = row.n.eid
                        THEN <<[r |-> r, m |-> NodeAt(g, r.to)]>>
                        ELSE IF r.to = row.n.eid
                        THEN <<[r |-> r, m |-> NodeAt(g, r.from)]>>
                        ELSE <<>>),
        [r |-> NoneVal, m |-> NoneVal])

\* record.get(key): None for a column the row does not have
RowGet(record, key) == IF key \in DOMAIN record THEN record[key] ELSE NoneVal

(***************************************************************************)
(* Accumulating helpers (main.py 95-121).                                  *)
(***************************************************************************)
HasKey(d, k) == \E i \in 1..Len(d) : d[i].key = k

\* nodes_map[nid] = vis_node for a key the dict does not hold yet
DictInsert(d, k, v) == Append(d, [key |-> k, value |-> v])

\* _ensure_node without the membership test of line 105
ensure_node_unguarded(node, nmap, inner) ==
    LET b == build_vis_node(node)
    IN  [nid       |-> b.nid,
         inner_ids |-> IF inner # <<>> THEN <<inner[1] \cup {b.nid}>> ELSE inner,
         nodes_map |-> DictInsert(nmap, b.nid, b.vis)]

\* _ensure_node with line 104 moved under the membership test of line 105
ensure_node_inner_when_new(node, nmap, inner) ==
    LET b == build_vis_node(node)
    IN  [nid       |-> b.nid,
         inner_ids |-> IF inner # <<>> /\ ~HasKey(nmap, b.nid)
                       THEN <<inner[1] \cup {b.nid}>> ELSE inner,
         nodes_map |-> IF ~HasKey(nmap, b.nid)
                       THEN DictInsert(nmap, b.nid, b.vis)
                       ELSE nmap]

\* _ensure_node(node, nodes_map, inner_ids).  inner is <<S>> for the set S
\* and <<>> for None; the result carries the returned id and both arguments
\* as the call leaves them.
ensure_node(node, nmap, inner) ==
    LET b == build_vis_node(node)
    IN  [nid       |-> b.nid,
         inner_ids |-> IF inner # <<>> THEN <<inner[1] \cup {b.nid}>> ELSE inner,
         nodes_map |-> IF ~HasKey(nmap, b.nid)
                       THEN DictInsert(nmap, b.nid, b.vis)
                       ELSE nmap]

\* _add_edge(rel, from_id, to_id, edges, edge_set): both collections as the
\* call leaves them
add_edge(rel, from_id, to_id, es, eset) ==
    LET edge_key == <<from_id, rel.type, to_id>>
    IN  IF edge_key \notin eset
        THEN [edges    |-> Append(es, build_vis_edge(rel, from_id, to_id)),
              edge_set |-> eset \cup {edge_key}]
        ELSE [edges |-> es, edge_set |-> eset]

(***************************************************************************)
(* get_entity_graph (main.py 158-246).                                     *)
(***************************************************************************)
\* inner_keys without the counterparty column
inner_keys_without_lender == <<"b", "d">>

inner_keys == <<"b", "d", "l">>

\* outer_keys without the second-order counterparty column
outer_keys_deal_only(lbl) == <<"d2">>

outer_keys(lbl) == IF lbl = "Borrower" THEN <<"d2", "b2">> ELSE <<"d2", "l2">>

RECURSIVE EnsureKeys(_, _, _, _)
\* main.py 198-206: for node_key in keys: _ensure_node on the non-null ones
EnsureKeys(keys, record, nmap, inner) ==
    IF keys = <<>> THEN [nodes_map |-> nmap, inner_ids |-> inner]
    ELSE LET node == RowGet(record, Head(keys))
         IN  IF node # NoneVal
             THEN LET e == ensure_node(node, nmap, inner)
                  IN  EnsureKeys(Tail(keys), record, e.nodes_map, e.inner_ids)
             ELSE EnsureKeys(Tail(keys), record, nmap, inner)

\* main.py 208-237: the four edge blocks of one loop iteration.  Both queries
\* bind a relationship column together with the node columns its block
\* subscripts (r1 with b and d, r2 with l and d, r4 with l or b and d2), so
\* no block subscripts None.
EntityEdges(lbl, record, es, eset) ==
    LET start == [edges |-> es, edge_set |-> eset]
        e1 == IF RowGet(record, "r1") # NoneVal
              THEN add_edge(record.r1,
                            node_id("Borrower", node_name(record.b)),
                            node_id("Deal", node_name(record.d)),
                            start.edges, start.edge_set)
              ELSE start
        e2 == IF RowGet(record, "r2") # NoneVal
              THEN add_edge(record.r2,
                            node_id("Lender", node_name(record.l)),
                            node_id("Deal", node_name(record.d)),
                            e1.edges, e1.edge_set)
              ELSE e1
        e4 == IF RowGet(record, "r4") # NoneVal /\ RowGet(record, "d2") # NoneVal
              THEN LET from_id == IF lbl = "Borrower"
                                  THEN node_id("Lender", node_name(record.l))
                                  ELSE node_id("Borrower", node_name(record.b))
                   IN  add_edge(record.r4, from_id,
                                node_id("Deal", node_name(record.d2)),
                                e2.edges, e2.edge_set)
              ELSE e2
        outer_label == IF lbl = "Borrower" THEN "Borrower" ELSE "Lender"
        outer_key == IF lbl = "Borrower" THEN "b2" ELSE "l2"
        outer_node == RowGet(record, outer_key)
    IN  IF /\ RowGet(record, "r5") # NoneVal
           /\ RowGet(record, "d2") # NoneVal
           /\ outer_node # NoneVal
        THEN add_edge(record.r5,
                      node_id(outer_label, node_name(outer_node)),
                      node_id("Deal", node_name(record.d2)),
                      e4.edges, e4.edge_set)
        ELSE e4

\* int(size * 0.6): for the preset sizes 25, 20 and 15 the double product is
\* exactly 15.0, 12.0 and 9.0, so truncation gives floor(6 * size / 10)
FadedSize(size) == (size * 6) \div 10

\* main.py 242-244: the three assignments on one node dict
Fade(node_data) ==
    [node_data EXCEPT
        !.size = FadedSize(node_data.size),
        !.color = [background |-> node_data.color, opacity |-> "0.45"],
        !.font = [color |-> "#707090"]]

\* the fading loop with the test of line 241 inverted
FadeOuter_inverted(nmap, inner) ==
    [i \in 1..Len(nmap) |->
        IF nmap[i].key \in inner
        THEN [nmap[i] EXCEPT !.value = Fade(nmap[i].value)]
        ELSE nmap[i]]

\* main.py 240-244
FadeOuter(nmap, inner) ==
    [i \in 1..Len(nmap) |->
        IF nmap[i].key \notin inner
        THEN [nmap[i] EXCEPT !.value = Fade(nmap[i].value)]
        ELSE nmap[i]]

\* the request-scoped locals before a handler creates them
NoLocals ==
    /\ records = <<>>
    /\ idx = 0
    /\ nodes_map = <<>>
    /\ edges = <<>>
    /\ edge_set = {}
    /\ inner_ids = {}
    /\ connections = <<>>
    /\ seen = {}
    /\ properties = <<>>

KeepLocals ==
    UNCHANGED <<records, idx, nodes_map, edges, edge_set, inner_ids,
                connections, seen, properties>>

EntityLabels == {"Borrower", "Lender", "Sector"}

EntityNames == {"MedTech Solutions", "Ares Capital", "Healthcare", "NoSuchCompany"}

\* main.py 185-186: any other label is refused before a query is made
get_entity_graph_bad_label ==
    /\ pc = "idle"
    /\ \E lbl \in EntityLabels, nm \in EntityNames :
        /\ lbl # "Borrower" /\ lbl # "Lender"
        /\ view' = "entity" /\ label' = lbl /\ name' = nm
        /\ status' = 400
        /\ pc' = "done"
    /\ KeepLocals
    /\ UNCHANGED <<db, hashOrder, queries>>

\* get_entity_graph without its else branch: any label that is not Borrower
\* is served by the Lender query
get_entity_graph_query_any_label ==
    /\ pc = "idle"
    /\ \E lbl \in EntityLabels, nm \in EntityNames :
        /\ view' = "entity" /\ label' = lbl /\ name' = nm
        /\ \E recs \in Orders(IF lbl = "Borrower" THEN BorrowerQuery(db, nm)
                                                  ELSE LenderQuery(db, nm)) :
            /\ records' = recs
            /\ IF recs = <<>>
               THEN status' = 404 /\ pc' = "done"
               ELSE status' = 0 /\ pc' = "rows"
    /\ queries' = queries + 1
    /\ UNCHANGED <<db, hashOrder, idx, nodes_map, edges, edge_set, inner_ids,
                   connections, seen, properties>>

\* main.py 165-195: the query, the 404 for an empty result, the fresh locals
get_entity_graph_query ==
    /\ pc = "idle"
    /\ \E lbl \in EntityLabels, nm \in EntityNames :
        /\ lbl = "Borrower" \/ lbl = "Lender"
        /\ view' = "entity" /\ label' = lbl /\ name' = nm
        /\ \E recs \in Orders(IF lbl = "Borrower" THEN BorrowerQuery(db, nm)
                                                  ELSE LenderQuery(db, nm)) :
            /\ records' = recs
            /\ IF recs = <<>>
               THEN status' = 404 /\ pc' = "done"
               ELSE status' = 0 /\ pc' = "rows"
    /\ queries' = queries + 1
    /\ UNCHANGED <<db, hashOrder, idx, nodes_map, edges, edge_set, inner_ids,
                   connections, seen, properties>>

\* a loop body that starts inner_ids afresh on every record, so that only the
\* last record's b, d and l stay inner
EntityRowStep_inner_of_row_only(lbl, record, nmap, inner, es, eset) ==
    LET n1 == EnsureKeys(inner_keys, record, nmap, <<{}>>)
        n2 == EnsureKeys(outer_keys(lbl), record, n1.nodes_map, <<>>)
        e == EntityEdges(lbl, record, es, eset)
    IN  [nodes_map |-> n2.nodes_map,
         inner_ids |-> n1.inner_ids[1],
         edges     |-> e.edges,
         edge_set  |-> e.edge_set]

\* main.py 198-237: the body of the loop over the records, as it leaves
\* the four collections
EntityRowStep(lbl, record, nmap, inner, es, eset) ==
    LET n1 == EnsureKeys(inner_keys, record, nmap, <<inner>>)
        n2 == EnsureKeys(outer_keys(lbl), record, n1.nodes_map, <<>>)
        e == EntityEdges(lbl, record, es, eset)
    IN  [nodes_map |-> n2.nodes_map,
         inner_ids |-> n1.inner_ids[1],
         edges     |-> e.edges,
         edge_set  |-> e.edge_set]

\* main.py 197-237: one iteration of the loop over the records
get_entity_graph_row ==
    /\ pc = "rows" /\ view = "entity" /\ idx < Len(records)
    /\ LET s == EntityRowStep(label, records[idx + 1], nodes_map, inner_ids,
                              edges, edge_set)
       IN  /\ nodes_map' = s.nodes_map
           /\ inner_ids' = s.inner_ids
           /\ edges' = s.edges
           /\ edge_set' = s.edge_set
    /\ idx' = idx + 1
    /\ UNCHANGED <<db, hashOrder, pc, view, label, name, records, connections,
                   seen, properties, status, queries>>

\* main.py 239-246: fade what was never inner, then return
get_entity_graph_return ==
    /\ pc = "rows" /\ view = "entity" /\ idx = Len(records)
    /\ nodes_map' = FadeOuter(nodes_map, inner_ids)
    /\ status' = 200
    /\ pc' = "done"
    /\ UNCHANGED <<db, hashOrder, view, label, name, records, idx, edges,
                   edge_set, inner_ids, connections, seen, properties, queries>>

(***************************************************************************)
(* get_graph (main.py 249-271).                                            *)
(***************************************************************************)
get_graph_query ==
    /\ pc = "idle"
    /\ view' = "graph" /\ label' = "" /\ name' = ""
    /\ \E recs \in Orders(GraphQuery(db)) : records' = recs
    /\ queries' = queries + 1
    /\ status' = 0
    /\ pc' = "rows"
    /\ UNCHANGED <<db, hashOrder, idx, nodes_map, edges, edge_set, inner_ids,
                   connections, seen, properties>>

\* the loop body with the target node ensured before the subject node
GraphRowStep_target_first(record, nmap, es) ==
    LET rel == record.r
        target == record.m
    IN  IF rel # NoneVal /\ target # NoneVal
        THEN LET t == ensure_node(target, nmap, <<>>)
                 n == ensure_node(record.n, t.nodes_map, <<>>)
             IN  [nodes_map |-> n.nodes_map,
                  edges     |-> Append(es, build_vis_edge(rel, n.nid, t.nid))]
        ELSE [nodes_map |-> ensure_node(record.n, nmap, <<>>).nodes_map,
              edges |-> es]

\* main.py 263-269: the body of the loop over the records, as it leaves
\* nodes_map and edges
GraphRowStep(record, nmap, es) ==
    LET n == ensure_node(record.n, nmap, <<>>)
        rel == record.r
        target == record.m
    IN  IF rel # NoneVal /\ target # NoneVal
        THEN LET t == ensure_node(target, n.nodes_map, <<>>)
             IN  [nodes_map |-> t.nodes_map,
                  edges     |-> Append(es, build_vis_edge(rel, n.nid, t.nid))]
        ELSE [nodes_map |-> n.nodes_map, edges |-> es]

\* main.py 262-269: one iteration of the loop over the records
get_graph_row ==
    /\ pc = "rows" /\ view = "graph" /\ idx < Len(records)
    /\ LET s == GraphRowStep(records[idx + 1], nodes_map, edges)
       IN  /\ nodes_map' = s.nodes_map
           /\ edges' = s.edges
    /\ idx' = idx + 1
    /\ UNCHANGED <<db, hashOrder, pc, view, label, name, records, edge_set,
                   inner_ids, connections, seen, properties, status, queries>>

get_graph_return ==
    /\ pc = "rows" /\ view = "graph" /\ idx = Len(records)
    /\ status' = 200
    /\ pc' = "done"
    /\ KeepLocals
    /\ UNCHANGED <<db, hashOrder, view, label, name, queries>>

(***************************************************************************)
(* get_node (main.py 274-318).                                             *)
(***************************************************************************)
NodeLabels == {"Borrower", "Lender", "Deal"}

NodeNames == {"MedTech Solutions", "Ares Capital", "MedTech Term Loan A", "NoSuchCompany"}

\* main.py 277-290
get_node_query ==
    /\ pc = "idle"
    /\ \E lbl \in NodeLabels, nm \in NodeNames :
        /\ view' = "node" /\ label' = lbl /\ name' = nm
        /\ \E recs \in Orders(NodeQuery(db, lbl, nm)) :
            /\ records' = recs
            /\ IF recs = <<>>
               THEN status' = 404 /\ pc' = "done" /\ properties' = properties
               ELSE status' = 0 /\ pc' = "rows" /\ properties' = recs[1].n.props
    /\ queries' = queries + 1
    /\ UNCHANGED <<db, hashOrder, idx, nodes_map, edges, edge_set, inner_ids,
                   connections, seen>>

\* the loop body without the test of lines 302-303
NodeRowStep_unguarded(record, conns, sn) ==
    LET rel == record.r
        other == record.m
    IN  IF rel = NoneVal \/ other = NoneVal
        THEN [connections |-> conns, seen |-> sn]
        ELSE LET o_label == first_label(other)
                 o_name == node_name(other)
                 key == <<rel.type, o_label, o_name>>
             IN  [seen |-> sn \cup {key},
                  connections |->
                      Append(conns,
                             [relationship       |-> rel.type,
                              relationship_props |-> rel.props,
                              node_label         |-> o_label,
                              node_name          |-> o_name,
                              node_props         |-> other.props])]

\* main.py 295-311: the body of the loop over the records, as it leaves
\* connections and seen
NodeRowStep(record, conns, sn) ==
    LET rel == record.r
        other == record.m
    IN  IF rel = NoneVal \/ other = NoneVal
        THEN [connections |-> conns, seen |-> sn]
        ELSE LET o_label == first_label(other)
                 o_name == node_name(other)
                 key == <<rel.type, o_label, o_name>>
             IN  IF key \in sn
                 THEN [connections |-> conns, seen |-> sn]
                 ELSE [seen |-> sn \cup {key},
                       connections |->
                           Append(conns,
                                  [relationship       |-> rel.type,
                                   relationship_props |-> rel.props,
                                   node_label         |-> o_label,
                                   node_name          |-> o_name,
                                   node_props         |-> other.props])]

\* main.py 294-311: one iteration of the loop over the records
get_node_row ==
    /\ pc = "rows" /\ view = "node" /\ idx < Len(records)
    /\ LET s == NodeRowStep(records[idx + 1], connections, seen)
       IN  /\ connections' = s.connections
           /\ seen' = s.seen
    /\ idx' = idx + 1
    /\ UNCHANGED <<db, hashOrder, pc, view, label, name, records, nodes_map,
                   edges, edge_set, inner_ids, properties, status, queries>>

get_node_return ==
    /\ pc = "rows" /\ view = "node" /\ idx = Len(records)
    /\ status' = 200
    /\ pc' = "done"
    /\ KeepLocals
    /\ UNCHANGED <<db, hashOrder, view, label, name, queries>>

(***************************************************************************)
(* Specifications.                                                         *)
(***************************************************************************)
\* whether some stored node carries more than one label
MultiLabel(g) == \E n \in Range(g.nodes) : Cardinality(n.labels) > 1

Idle ==
    /\ pc = "idle"
    /\ view = "" /\ label = "" /\ name = ""
    /\ status = 0
    /\ queries = 0
    /\ NoLocals

\* the application is up over one of the small databases
Init ==
    /\ db \in SmallDbs
    /\ hashOrder \in HashOrders
    /\ ~MultiLabel(db) => hashOrder = <<"Borrower", "Lender", "Deal", "Sector", "Sponsor">>
    /\ Idle

\* the application is up over the seeded fixture
InitSeed ==
    /\ db = seed
    /\ hashOrder = <<"Borrower", "Lender", "Deal", "Sector", "Sponsor">>
    /\ Idle

Next ==
    \/ get_entity_graph_bad_label
    \/ get_entity_graph_query
    \/ get_entity_graph_row
    \/ get_entity_graph_return
    \/ get_graph_query
    \/ get_graph_row
    \/ get_graph_return
    \/ get_node_query
    \/ get_node_row
    \/ get_node_return

Spec == Init /\ [][Next]_vars

SpecSeed == InitSeed /\ [][Next]_vars

(***************************************************************************)
(* Vocabulary of the properties.                                           *)
(***************************************************************************)
\* the id the projection gives a graph node
IdOf(node) == build_vis_node(node).nid

\* list(nodes_map.values())
ResponseNodes == [i \in 1..Len(nodes_map) |-> nodes_map[i].value]

ResponseIds == {nodes_map[i].value.id : i \in 1..Len(nodes_map)}

InnerCols == {"b", "d", "l"}

OuterCols == {"d2", "b2", "l2"}

NodeCols == InnerCols \cup OuterCols \cup {"n", "m"}

\* the columns of a row under which the node with id nid stands
ColsOf(record, nid) ==
    {c \in NodeCols : RowGet(record, c) # NoneVal /\ IdOf(RowGet(record, c)) = nid}

\* the ids of the nodes the rows consumed so far carry
ConsumedIds ==
    UNION {{IdOf(RowGet(records[k], c)) :
                c \in {x \in NodeCols : RowGet(records[k], x) # NoneVal}} :
           k \in 1..idx}

InnerAt(k, nid) == ColsOf(records[k], nid) \cap InnerCols # {}

OuterAt(k, nid) == ColsOf(records[k], nid) \cap OuterCols # {}

\* a node dict as _build_vis_node made it: preset size, plain colour, no font
Unfaded(v) ==
    /\ v.size = StyleFor(v.group).size
    /\ v.color = [plain |-> StyleFor(v.group).color]
    /\ v.font = NoFont

(***************************************************************************)
(* C1.  In get_graph and get_entity_graph no two returned nodes have the   *)
(* same id, and a node that the consumed rows carry, in however many rows  *)
(* and under whichever columns, is returned exactly once.                  *)
(***************************************************************************)
C1_NodeIdsUnique ==
    view \in {"graph", "entity"} =>
        /\ \A i, j \in 1..Len(nodes_map) :
              nodes_map[i].value.id = nodes_map[j].value.id => i = j
        /\ \A nid \in ConsumedIds :
              Cardinality({i \in 1..Len(nodes_map) : nodes_map[i].value.id = nid}) = 1

\* an ego-network response with a node carried by several rows and under an
\* inner and an outer column
C1_Witness ==
    /\ view = "entity" /\ status = 200
    /\ \E nid \in ResponseIds :
          /\ Cardinality({k \in 1..Len(records) : ColsOf(records[k], nid) # {}}) >= 2
          /\ \E k \in 1..Len(records) : InnerAt(k, nid)
          /\ \E k \in 1..Len(records) : OuterAt(k, nid)

(***************************************************************************)
(* C3.  In get_entity_graph an id seen under an inner column of a consumed *)
(* row is in inner_ids from then on, and the response returns its node     *)
(* unfaded, wherever the rows that carry it under an outer column stand.   *)
(***************************************************************************)
C3_InnerStaysUnfaded ==
    view = "entity" =>
        /\ \A k \in 1..idx : \A nid \in ConsumedIds :
              InnerAt(k, nid) => nid \in inner_ids
        /\ status = 200 =>
              \A k \in 1..Len(records) : \A nid \in ConsumedIds :
                  InnerAt(k, nid) =>
                      \E i \in 1..Len(nodes_map) :
                          /\ nodes_map[i].value.id = nid
                          /\ Unfaded(nodes_map[i].value)

\* a response in which one node stood under an outer column before its
\* first inner occurrence, and another under an outer column after it
C3_Witness ==
    /\ view = "entity" /\ status = 200
    /\ \E x \in ResponseIds : \E k1, k2 \in 1..Len(records) :
          /\ k1 < k2
          /\ OuterAt(k1, x)
          /\ \A k \in 1..k1 : ~InnerAt(k, x)
          /\ InnerAt(k2, x)
    /\ \E y \in ResponseIds : \E k1, k2 \in 1..Len(records) :
          /\ k1 < k2
          /\ InnerAt(k1, y)
          /\ OuterAt(k2, y)

(***************************************************************************)
(* C2.  In every response of get_graph and get_entity_graph at most one    *)
(* edge is returned per (from, relationship type, to).                     *)
(***************************************************************************)
\* the relationship type a vis edge was built from, read back from the edge
EdgeTypeOf(e) ==
    CHOOSE t \in {r.type : r \in Range(db.rels)} :
        \E r \in Range(db.rels) :
            r.type = t /\ build_vis_edge(r, e.from, e.to) = e

EdgeTriple(e) == <<e.from, EdgeTypeOf(e), e.to>>

C2_OneEdgePerTriple ==
    (view \in {"graph", "entity"} /\ status = 200) =>
        \A i, j \in 1..Len(edges) :
            EdgeTriple(edges[i]) = EdgeTriple(edges[j]) => i = j

(***************************************************************************)
(* C4.  An ego-network request whose label is neither Borrower nor Lender  *)
(* ends with status 400, with no query issued and no node or edge built,   *)
(* whatever the name and the database.                                     *)
(***************************************************************************)
C4_BadLabelRejected ==
    (view = "entity" /\ label \notin {"Borrower", "Lender"}) =>
        /\ pc = "done"
        /\ status = 400
        /\ queries = 0
        /\ records = <<>>
        /\ nodes_map = <<>>
        /\ edges = <<>>

\* whether the database holds a node of that label and name
Exists(g, lbl, nm) ==
    \E n \in Range(g.nodes) : lbl \in n.labels /\ node_name(n) = nm

\* a rejected request that names a stored node
C4_Witness ==
    /\ view = "entity" /\ status = 400
    /\ Exists(db, label, name)

(***************************************************************************)
(* C5.  An ego-network request with label Borrower or Lender ends with 404 *)
(* exactly when the database holds no node of that label and name; for a   *)
(* stored entity, one without deals included, it ends with a success       *)
(* response that holds the focal entity, unfaded.                          *)
(***************************************************************************)
C5_NotFoundIffAbsent ==
    (view = "entity" /\ label \in {"Borrower", "Lender"} /\ pc = "done") =>
        /\ status = 404 <=> ~Exists(db, label, name)
        /\ status # 404 =>
              /\ status = 200
              /\ \E i \in 1..Len(nodes_map) :
                    /\ nodes_map[i].value.group = label
                    /\ nodes_map[i].value.label = name
                    /\ Unfaded(nodes_map[i].value)

(***************************************************************************)
(* C6.  In a response of get_graph or get_entity_graph over rows whose     *)
(* nodes carry one label each, the from and the to of every edge are ids   *)
(* of returned nodes.                                                      *)
(***************************************************************************)
SingleLabelRows ==
    \A k \in 1..Len(records) : \A c \in NodeCols :
        RowGet(records[k], c) # NoneVal =>
            Cardinality(RowGet(records[k], c).labels) = 1

C6_NoDanglingEdge ==
    (view \in {"graph", "entity"} /\ status = 200 /\ SingleLabelRows) =>
        \A i \in 1..Len(edges) :
            edges[i].from \in ResponseIds /\ edges[i].to \in ResponseIds

\* an ego-network response with an r4 edge and an r5 edge that starts at a
\* second-order counterparty
C6_Witness ==
    /\ view = "entity" /\ status = 200 /\ SingleLabelRows
    /\ \E k \in 1..Len(records) :
          LET record == records[k]
              outer_node == RowGet(record, IF label = "Borrower" THEN "b2" ELSE "l2")
          IN  /\ RowGet(record, "r4") # NoneVal
              /\ RowGet(record, "r5") # NoneVal
              /\ outer_node # NoneVal
              /\ ~(\E j \in 1..Len(records) : InnerAt(j, IdOf(outer_node)))
              /\ \E i \in 1..Len(edges) :
                    /\ edges[i].from = IdOf(outer_node)
                    /\ edges[i].to = IdOf(record.d2)
              /\ \E i \in 1..Len(edges) :
                    /\ edges[i].to = IdOf(record.d2)
                    /\ edges[i].from # IdOf(outer_node)

(***************************************************************************)
(* C7.  In a success response of get_node no two connections share         *)
(* (relationship type, neighbour label, neighbour name), and each such     *)
(* triple of a row with a relationship and a neighbour has exactly one     *)
(* entry, which carries the properties of the triple's first row.          *)
(***************************************************************************)
HasNeighbour(record) == record.r # NoneVal /\ record.m # NoneVal

RowKey(record) == <<record.r.type, first_label(record.m), node_name(record.m)>>

ConnKey(c) == <<c.relationship, c.node_label, c.node_name>>

\* the first row that carries the triple of row k
FirstRowOf(k) ==
    CHOOSE f \in 1..k :
        /\ HasNeighbour(records[f]) /\ RowKey(records[f]) = RowKey(records[k])
        /\ \A g \in 1..(f - 1) :
              ~(HasNeighbour(records[g]) /\ RowKey(records[g]) = RowKey(records[k]))

C7_ConnectionsDeduplicated ==
    (view = "node" /\ status = 200) =>
        /\ \A i, j \in 1..Len(connections) :
              ConnKey(connections[i]) = ConnKey(connections[j]) => i = j
        /\ \A i \in 1..Len(connections) :
              \E k \in 1..Len(records) :
                  HasNeighbour(records[k]) /\ RowKey(records[k]) = ConnKey(connections[i])
        /\ \A k \in 1..Len(records) :
              HasNeighbour(records[k]) =>
                  LET first == records[FirstRowOf(k)]
                      hits == {i \in 1..Len(connections) :
                                  ConnKey(connections[i]) = RowKey(records[k])}
                  IN  /\ Cardinality(hits) = 1
                      /\ \A i \in hits :
                            /\ connections[i].relationship_props = first.r.props
                            /\ connections[i].node_props = first.m.props

\* a response over two rows of one triple whose relationships differ in their
\* properties
C7_Witness ==
    /\ view = "node" /\ status = 200
    /\ \E k1, k2 \in 1..Len(records) :
          /\ k1 < k2
          /\ HasNeighbour(records[k1]) /\ HasNeighbour(records[k2])
          /\ RowKey(records[k1]) = RowKey(records[k2])
          /\ records[k1].r.props # records[k2].r.props

(***************************************************************************)
(* C8.  On the seeded fixture the ego-network of Borrower 'MedTech         *)
(* Solutions' returns unfaded exactly MedTech Solutions, its two deals and *)
(* the lenders Ares Capital and HPS Investment, Ares Capital once; every   *)
(* other node is faded, and for each of the two lenders the faded nodes    *)
(* hold a further deal of that lender and the borrower of that deal.       *)
(***************************************************************************)
\* a node dict after the three assignments of the fading loop, applied once
FadedOnce(v) ==
    /\ v.size = (CASE StyleFor(v.group).size = 25 -> 15
                   [] StyleFor(v.group).size = 20 -> 12
                   [] StyleFor(v.group).size = 15 -> 9)
    /\ v.color = [background |-> [plain |-> StyleFor(v.group).color],
                  opacity |-> "0.45"]
    /\ v.font = [color |-> "#707090"]

MedTechRequest ==
    view = "entity" /\ label = "Borrower" /\ name = "MedTech Solutions"

MedTechInner ==
    {"Borrower:MedTech Solutions", "Deal:MedTech Term Loan A",
     "Deal:MedTech Revolver", "Lender:Ares Capital", "Lender:HPS Investment"}

C9_FadedIffNeverInner ==
    (view = "entity" /\ status = 200) =>
        \A i \in 1..Len(nodes_map) :
            LET v == nodes_map[i].value
            IN  IF \E k \in 1..Len(records) : InnerAt(k, v.id)
                THEN Unfaded(v)
                ELSE FadedOnce(v) /\ ~Unfaded(v)

\* a response that holds a faded node of each preset size and unfaded ones
C9_Witness ==
    /\ view = "entity" /\ status = 200
    /\ \A size \in {15, 12, 9} :
          \E i \in 1..Len(nodes_map) :
              FadedOnce(nodes_map[i].value) /\ nodes_map[i].value.size = size
    /\ \E i \in 1..Len(nodes_map) : Unfaded(nodes_map[i].value)

(***************************************************************************)
(* C10.  In get_graph the node list is in first-seen order: rows in input  *)
(* order, the subject of a row before its object, and of two returned      *)
(* nodes the one that occurs first in the rows stands first in the list.   *)
(***************************************************************************)
\* the ids the first k rows of get_graph carry, subject before object
GraphOcc(k) ==
    Flatten([r \in 1..k |->
        <<IdOf(records[r].n)>>
        \o (IF HasNeighbour(records[r]) THEN <<IdOf(records[r].m)>> ELSE <<>>)])

FirstPos(occ, nid) ==
    CHOOSE q \in 1..Len(occ) :
        occ[q] = nid /\ \A o \in 1..(q - 1) : occ[o] # nid

C10_FirstSeenOrder ==
    view = "graph" =>
        LET occ == GraphOcc(idx)
        IN  /\ ResponseIds = Range(occ)
            /\ \A i, j \in 1..Len(nodes_map) :
                  i < j => FirstPos(occ, nodes_map[i].value.id)
                              < FirstPos(occ, nodes_map[j].value.id)

\* a response in which a node was seen again after other nodes, and a node
\* first seen as the object of a row is the subject of a later row
C10_Witness ==
    /\ view = "graph" /\ status = 200
    /\ LET occ == GraphOcc(Len(records))
       IN  \E a, b, c \in 1..Len(occ) :
              a < b /\ b < c /\ occ[a] = occ[c] /\ occ[b] # occ[a]
    /\ \E k1, k2 \in 1..Len(records) :
          /\ k1 < k2
          /\ HasNeighbour(records[k1])
          /\ IdOf(records[k1].m) = IdOf(records[k2].n)
          /\ \A k \in 1..k1 : IdOf(records[k].n) # IdOf(records[k1].m)

(***************************************************************************)
(* C11.  The result of get_entity_graph does not depend on the order of    *)
(* the rows: whatever order the rows of the query come back in, the set of *)
(* returned node ids, the set of faded ids and the set of edge triples are *)
(* those the handler computes on the rows in match order; only positions   *)
(* in the lists may differ.                                                *)
(***************************************************************************)
RECURSIVE EntityLoop(_, _, _)
\* main.py 197-237: the loop over recs, from the collections acc
EntityLoop(lbl, recs, acc) ==
    IF recs = <<>> THEN acc
    ELSE EntityLoop(lbl, Tail(recs),
                    EntityRowStep(lbl, Head(recs), acc.nodes_map, acc.inner_ids,
                                  acc.edges, acc.edge_set))

\* main.py 192-246: what get_entity_graph returns for the rows recs
EntityResult(lbl, recs) ==
    LET acc == EntityLoop(lbl, recs,
                          [nodes_map |-> <<>>, inner_ids |-> {},
                           edges |-> <<>>, edge_set |-> {}])
        faded == FadeOuter(acc.nodes_map, acc.inner_ids)
    IN  [nodes |-> [i \in 1..Len(faded) |-> faded[i].value],
         edges |-> acc.edges]

\* what of a result the order of the rows must not change
OrderFree(result) ==
    [ids     |-> {result.nodes[i].id : i \in 1..Len(result.nodes)},
     faded   |-> {result.nodes[i].id :
                     i \in {j \in 1..Len(result.nodes) : ~Unfaded(result.nodes[j])}},
     triples |-> {EdgeTriple(result.edges[i]) : i \in 1..Len(result.edges)}]

\* the rows of the request's query in match order
MatchOrderRows ==
    IF label = "Borrower" THEN BorrowerQuery(db, name) ELSE LenderQuery(db, name)

====
